---- MODULE Spec2Model ----
(***************************************************************************)
(* Model of the PDF text pipeline of forpdf:                               *)
(*   - formatTextContent (the Line Reconstructor of the viewer), and       *)
(*   - correctText       (the Text Normalizer behind "Format Text").       *)
(* A text is a sequence of characters; a character is a one-character      *)
(* string, or the name "U+XXXX" of a code point outside ASCII.             *)
(***************************************************************************)
EXTENDS Integers, Sequences, FiniteSets, TLC

VARIABLES
  pc,             \* "ready", then "formatted", "threw" or "corrected"
  items,          \* textContent.items handed to formatTextContent
  lines,          \* the local array `lines` of formatTextContent
  pageText,       \* the string formatTextContent returned
  text,           \* the argument of correctText
  formattedText,  \* the string correctText returned
  file,           \* the pages of the document the multi-page viewer shows
  numPages,       \* state numPages of the viewer
  pending,        \* per page, the getTextContent calls not yet completed
  loads,          \* how often a Page has reported onLoadSuccess
  resolved,       \* the pages of which a getTextContent call has completed
  extractedTextRef, \* extractedTextRef.current: page number -> page text
  allText,        \* state allText of the viewer
  extractedText,  \* state extractedText of Index
  effectDue,      \* the viewer was rendered with a new onTextExtracted
  documentLoading, \* Document has not yet reported the load of file
  superseded,     \* the getTextContent calls, not yet completed, of pages
                  \* of files shown before: <<pageIndex, items>> -> how many
  pageNumber      \* state pageNumber of the single-page viewer

viewerVars ==
  <<file, numPages, pending, loads, resolved, extractedTextRef, allText,
    extractedText, effectDue, documentLoading, superseded, pageNumber>>

vars == <<pc, items, lines, pageText, text, formattedText, viewerVars>>

\* no viewer is mounted
NoViewer ==
  /\ file = <<>>
  /\ numPages = 0
  /\ pending = <<>>
  /\ loads = 0
  /\ resolved = {}
  /\ extractedTextRef = <<>>
  /\ allText = <<>>
  /\ extractedText = <<>>
  /\ effectDue = FALSE
  /\ documentLoading = FALSE
  /\ superseded = <<>>
  /\ pageNumber = 1

(***************************************************************************)
(* Characters and strings                                                  *)
(***************************************************************************)
Chars(s) == [i \in 1..Len(s) |-> SubSeq(s, i, i)]

UpperCase == Chars("ABCDEFGHIJKLMNOPQRSTUVWXYZ")
LowerCase == Chars("abcdefghijklmnopqrstuvwxyz")
UpperSet == {UpperCase[i] : i \in 1..26}
LowerSet == {LowerCase[i] : i \in 1..26}
Letters == UpperSet \cup LowerSet
Digits == {"0", "1", "2", "3", "4", "5", "6", "7", "8", "9"}

\* \w of a JavaScript regular expression
WordChars == Letters \cup Digits \cup {"_"}

\* \s of a JavaScript regular expression (also what String.prototype.trim strips)
WhiteSpace == {" ", "\t", "\n", "\r", "\f", "U+000B", "U+00A0", "U+1680",
               "U+2000", "U+2001", "U+2002", "U+2003", "U+2004", "U+2005",
               "U+2006", "U+2007", "U+2008", "U+2009", "U+200A", "U+2028",
               "U+2029", "U+202F", "U+205F", "U+3000", "U+FEFF"}

ToLower(c) == IF c \in UpperSet
              THEN LowerCase[CHOOSE i \in 1..26 : UpperCase[i] = c]
              ELSE c

Abs(n) == IF n < 0 THEN -n ELSE n

\* s.endsWith(c) and s.startsWith(c) for a one-character c
EndsWith(s, c) == Len(s) > 0 /\ s[Len(s)] = c
StartsWith(s, c) == Len(s) > 0 /\ s[1] = c

\* first index >= i of s that holds no whitespace (Len(s) + 1 when none)
RECURSIVE SkipWs(_, _)
SkipWs(s, i) == IF i <= Len(s) /\ s[i] \in WhiteSpace THEN SkipWs(s, i + 1) ELSE i

\* last index <= i of s that holds no whitespace (0 when none)
RECURSIVE SkipWsBack(_, _)
SkipWsBack(s, i) == IF i >= 1 /\ s[i] \in WhiteSpace THEN SkipWsBack(s, i - 1) ELSE i

\* the first index >= i of s that holds neither a space nor a tab
RECURSIVE SkipBlanks(_, _)
SkipBlanks(s, i) ==
  IF i <= Len(s) /\ s[i] \in {" ", "\t"} THEN SkipBlanks(s, i + 1) ELSE i

\* String.prototype.trim
Trim(s) == SubSeq(s, SkipWs(s, 1), SkipWsBack(s, Len(s)))

\* The values undefined and null, where the program expects a string: no
\* text holds these names as a character.
undefined == <<"undefined">>
null == <<"null">>
IsNullish(v) == v \in {undefined, null}

\* '' + v
StringOf(v) == IF IsNullish(v) THEN Chars(v[1]) ELSE v

\* Array.prototype.join(''): undefined and null elements count as ''
RECURSIVE Join(_)
Join(parts) ==
  IF parts = <<>> THEN <<>>
  ELSE (IF IsNullish(Head(parts)) THEN <<>> ELSE Head(parts)) \o Join(Tail(parts))

\* sub occurs in s at index k
OccursAt(s, sub, k) ==
  k >= 1 /\ k + Len(sub) - 1 <= Len(s) /\ SubSeq(s, k, k + Len(sub) - 1) = sub

Contains(s, sub) == \E k \in 1..(Len(s) + 1) : OccursAt(s, sub, k)

(***************************************************************************)
(* formatTextContent: the Line Reconstructor                               *)
(***************************************************************************)
yThreshold == 4
paragraphGap == 12

\* An item of textContent.items: str, and the optional transform (a
\* six-number matrix), x and y.  An absent optional is <<>>, a present x or
\* y is <<n>>.
\* items.map(...): x = it.transform?.[4] ?? it.x ?? 0, y likewise with [5]
MapItem(it) ==
  [str |-> it.str,
   x |-> IF Len(it.transform) >= 5 THEN it.transform[5]
         ELSE IF it.x # <<>> THEN it.x[1] ELSE 0,
   y |-> IF Len(it.transform) >= 6 THEN it.transform[6]
         ELSE IF it.y # <<>> THEN it.y[1] ELSE 0]

\* the comparator without its second key
CompareByY(a, b) == b.y - a.y

\* the comparator (a, b) => (b.y - a.y) || (a.x - b.x)
Compare(a, b) == IF b.y - a.y # 0 THEN b.y - a.y ELSE a.x - b.x

\* Array.prototype.sort is stable: an element moves in front of another only
\* when the comparator puts it strictly before.
RECURSIVE InsertSorted(_, _)
InsertSorted(sorted, it) ==
  IF sorted = <<>> THEN <<it>>
  ELSE IF Compare(it, sorted[Len(sorted)]) < 0
       THEN Append(InsertSorted(SubSeq(sorted, 1, Len(sorted) - 1), it),
                   sorted[Len(sorted)])
       ELSE Append(sorted, it)

RECURSIVE SortItems(_)
SortItems(s) ==
  IF s = <<>> THEN <<>>
  ELSE InsertSorted(SortItems(SubSeq(s, 1, Len(s) - 1)), s[Len(s)])

Mapped(its) == SortItems([i \in 1..Len(its) |-> MapItem(its[i])])

\* needsSpace without the test of prev
NeedsSpaceAlways(prev, str) == ~EndsWith(prev, " ") /\ ~StartsWith(str, " ")

\* needsSpace = prev && !prev.endsWith(' ') && !it.str.startsWith(' ')
NeedsSpace(prev, str) ==
  prev # <<>> /\ ~EndsWith(prev, " ") /\ ~StartsWith(str, " ")

\* the test of forEach with >= for >
OpensLineAtThreshold(ls, it) == ls = <<>> \/ Abs(ls[Len(ls)].y - it.y) >= yThreshold

\* the body of mapped.forEach
OpensLine(ls, it) == ls = <<>> \/ Abs(ls[Len(ls)].y - it.y) > yThreshold

\* prev = last.text[last.text.length - 1] ?? ''
Prev(last) ==
  IF IsNullish(last.text[Len(last.text)]) THEN <<>> ELSE last.text[Len(last.text)]

\* it.str.startsWith(' ') is reached with a str that is undefined or null:
\* a TypeError
Raises(ls, it) ==
  /\ ~OpensLine(ls, it)
  /\ IsNullish(it.str)
  /\ Prev(ls[Len(ls)]) # <<>>
  /\ ~EndsWith(Prev(ls[Len(ls)]), " ")

AddToLines(ls, it) ==
  IF OpensLine(ls, it)
  THEN Append(ls, [y |-> it.y, text |-> <<it.str>>])
  ELSE LET prev == Prev(ls[Len(ls)])
           part == (IF NeedsSpace(prev, it.str) THEN <<" ">> ELSE <<>>)
                     \o StringOf(it.str)
       IN [ls EXCEPT ![Len(ls)].text = Append(@, part)]

\* `lines` after the first k items of mapped
RECURSIVE BuildLines(_, _)
BuildLines(mapped, k) ==
  IF k = 0 THEN <<>> ELSE AddToLines(BuildLines(mapped, k - 1), mapped[k])

\* the first item of mapped at which forEach raises, or 0
ThrowsAt(mapped) ==
  IF \E k \in 1..Len(mapped) : Raises(BuildLines(mapped, k - 1), mapped[k])
  THEN CHOOSE k \in 1..Len(mapped) :
         /\ Raises(BuildLines(mapped, k - 1), mapped[k])
         /\ \A j \in 1..(k - 1) : ~Raises(BuildLines(mapped, j - 1), mapped[j])
  ELSE 0

\* the separator with >= for >
SeparatorAtGap(ls, i) ==
  IF Abs(ls[i].y - ls[i + 1].y) >= paragraphGap THEN <<"\n", "\n">> ELSE <<"\n">>

\* the separator the emission loop puts after line i
Separator(ls, i) ==
  IF Abs(ls[i].y - ls[i + 1].y) > paragraphGap THEN <<"\n", "\n">> ELSE <<"\n">>

\* the loop without the trim of lineText
RECURSIVE AssembleUntrimmed(_, _)
AssembleUntrimmed(ls, i) ==
  IF i > Len(ls) THEN <<>>
  ELSE Join(ls[i].text)
       \o (IF i = Len(ls) THEN <<>>
           ELSE Separator(ls, i) \o AssembleUntrimmed(ls, i + 1))

\* the loop that assembles `result` from `lines`
RECURSIVE Assemble(_, _)
Assemble(ls, i) ==
  IF i > Len(ls) THEN <<>>
  ELSE Trim(Join(ls[i].text))
       \o (IF i = Len(ls) THEN <<>> ELSE Separator(ls, i) \o Assemble(ls, i + 1))

\* first index >= i of s that holds no newline
RECURSIVE SkipNewlines(_, _)
SkipNewlines(s, i) == IF i <= Len(s) /\ s[i] = "\n" THEN SkipNewlines(s, i + 1) ELSE i

\* /-\n/g
MatchHyphenNewline(s, i) ==
  IF s[i] = "-" /\ i + 1 <= Len(s) /\ s[i + 1] = "\n" THEN i + 2 ELSE 0

\* /\n{3,}/g
MatchNewlines3(s, i) == IF SkipNewlines(s, i) >= i + 3 THEN SkipNewlines(s, i) ELSE 0

TwoNewlines(s, i, e) == <<"\n", "\n">>

\* /([.!?])\s+(?=[A-Z])/g, replaced by '$1\n\n'
MatchSentenceEnd(s, i) ==
  LET e == SkipWs(s, i + 1)
  IN IF s[i] \in {".", "!", "?"} /\ e > i + 1 /\ e <= Len(s) /\ s[e] \in UpperSet
     THEN e ELSE 0

SentenceBreak(s, i, e) == <<s[i], "\n", "\n">>

(***************************************************************************)
(* correctText: the regular expressions of the Text Normalizer             *)
(***************************************************************************)
HexDigits == Chars("0123456789ABCDEF")
HexValue(h) == (CHOOSE v \in 1..16 : HexDigits[v] = h) - 1

RECURSIVE HexNumber(_, _)
HexNumber(ds, k) == IF k = 0 THEN 0 ELSE 16 * HexNumber(ds, k - 1) + HexValue(ds[k])

\* the code point of a character named "U+XXXX"
CodePoint(c) == LET ds == SubSeq(Chars(c), 3, Len(c)) IN HexNumber(ds, Len(ds))

\* the ranges of the emoji class (with the u flag a character is a code point)
EmojiRanges ==
  {<<128512, 128591>>, <<127744, 128511>>, <<128640, 128767>>,
   <<128768, 128895>>, <<128896, 129023>>, <<129024, 129279>>,
   <<129280, 129535>>, <<129536, 129647>>, <<129648, 129791>>,
   <<9728, 9983>>, <<9984, 10175>>}

IsEmoji(c) ==
  Len(c) > 1 /\ \E r \in EmojiRanges : r[1] <= CodePoint(c) /\ CodePoint(c) <= r[2]

\* the six bullet classes, in the order of the replaces
BulletClasses ==
  << {"U+2022", "U+25CF", "U+25A0", "U+25A1", "U+25AA", "U+25AB", "U+2043",
      "U+2219", "U+25E6", "U+25CB"},
     {"U+25B8", "U+25BA", "U+25BC", "U+25BE", "U+25C2", "U+25C4", "U+25C6",
      "U+25C8", "U+25CB", "U+25CE", "U+25CF"},
     {"U+25D0", "U+25D1", "U+25D2", "U+25D3", "U+25D4", "U+25D5", "U+25D6",
      "U+25D7", "U+25D8", "U+25D9", "U+25DA", "U+25DB", "U+25DC", "U+25DD",
      "U+25DE", "U+25DF"},
     {"U+25E0", "U+25E1", "U+25E2", "U+25E3", "U+25E4", "U+25E5", "U+25E6",
      "U+25E7", "U+25E8", "U+25E9", "U+25EA", "U+25EB", "U+25EC", "U+25ED",
      "U+25EE", "U+25EF"},
     {"U+2605", "U+2606", "U+260E", "U+2616", "U+2617", "U+2619", "U+261A",
      "U+261B", "U+261C", "U+261D", "U+261E", "U+261F"},
     {"U+2660", "U+2661", "U+2662", "U+2663", "U+2664", "U+2665", "U+2666",
      "U+2667", "U+2668", "U+2669", "U+266A", "U+266B", "U+266C", "U+266D",
      "U+266E", "U+266F"} >>

\* a literal, matched at i without regard to case: the end of the match, or 0
MatchLiteral(s, i, lit) ==
  IF /\ i >= 1
     /\ i + Len(lit) - 1 <= Len(s)
     /\ \A k \in 1..Len(lit) : ToLower(s[i + k - 1]) = ToLower(lit[k])
  THEN i + Len(lit) ELSE 0

\* /---\s*Page\s*Break\s*---/gi
MatchPageBreak(s, i) ==
  LET a == MatchLiteral(s, i, Chars("---"))
      b == IF a = 0 THEN 0 ELSE MatchLiteral(s, SkipWs(s, a), Chars("Page"))
      c == IF b = 0 THEN 0 ELSE MatchLiteral(s, SkipWs(s, b), Chars("Break"))
  IN IF c = 0 THEN 0 ELSE MatchLiteral(s, SkipWs(s, c), Chars("---"))

\* first index >= i of s that holds no word character
RECURSIVE SkipWord(_, _)
SkipWord(s, i) == IF i <= Len(s) /\ s[i] \in WordChars THEN SkipWord(s, i + 1) ELSE i

\* /(\w+)-\s*\n\s*(\w+)/g: <<end of $1, start of $2, end of the match>>,
\* ends not included, or <<0, 0, 0>>
DehyphenGroups(s, i) ==
  LET j == SkipWord(s, i)
      k == IF j <= Len(s) /\ s[j] = "-" THEN SkipWs(s, j + 1) ELSE 0
  IN IF /\ j > i
        /\ k > 0
        /\ \E n \in (j + 1)..(k - 1) : s[n] = "\n"
        /\ SkipWord(s, k) > k
     THEN <<j, k, SkipWord(s, k)>> ELSE <<0, 0, 0>>

\* \b at the gap in front of index i
WordBoundary(s, i) ==
  (i - 1 >= 1 /\ s[i - 1] \in WordChars) # (i <= Len(s) /\ s[i] \in WordChars)

\* ([A-Za-z]) followed n - 1 times by \s+([A-Za-z]), then \b
RECURSIVE MatchLetters(_, _, _)
MatchLetters(n, s, i) ==
  IF ~(i <= Len(s) /\ s[i] \in Letters) THEN 0
  ELSE IF n = 1 THEN (IF WordBoundary(s, i + 1) THEN i + 1 ELSE 0)
  ELSE IF SkipWs(s, i + 1) = i + 1 THEN 0
  ELSE MatchLetters(n - 1, s, SkipWs(s, i + 1))

\* /\b([A-Za-z])\s+([A-Za-z]) ... \s+([A-Za-z])\b/g with n letters
MatchLetterRun(n, s, i) == IF WordBoundary(s, i) THEN MatchLetters(n, s, i) ELSE 0

\* '$1$2...': the matched text without its whitespace
RECURSIVE DropWhiteSpace(_)
DropWhiteSpace(s) ==
  IF s = <<>> THEN <<>>
  ELSE (IF Head(s) \in WhiteSpace THEN <<>> ELSE <<Head(s)>>) \o DropWhiteSpace(Tail(s))

\* /\s+/g
MatchSpaces(s, i) == IF s[i] \in WhiteSpace THEN SkipWs(s, i) ELSE 0

\* /\.\s+([A-Z])/g: the end of the match (the capital is its last character)
MatchSentence(s, i) ==
  LET e == SkipWs(s, i + 1)
  IN IF s[i] = "." /\ e > i + 1 /\ e <= Len(s) /\ s[e] \in UpperSet
     THEN e + 1 ELSE 0

\* \s*([^\n]) from index c: the index of the character the group takes, or
\* 0.  \s* takes the whole whitespace run when a character follows it;
\* when the run reaches the end of s, it gives back up to the last
\* whitespace character that is no newline.
TailChar(s, c) ==
  IF c < 1 THEN 0
  ELSE IF SkipWs(s, c) <= Len(s) THEN SkipWs(s, c)
  ELSE IF \E m \in c..Len(s) : s[m] # "\n"
       THEN CHOOSE m \in c..Len(s) :
              s[m] # "\n" /\ \A q \in (m + 1)..Len(s) : s[q] = "\n"
       ELSE 0

AllDigits(s, i, n) == i >= 1 /\ i + n - 1 <= Len(s) /\ \A k \in i..(i + n - 1) : s[k] \in Digits

\* [-–—]
Dashes == {"-", "U+2013", "U+2014"}

\* \s*[-–—]\s* from index a: the index after it, or 0
MatchDash(s, a) ==
  IF a >= 1 /\ SkipWs(s, a) <= Len(s) /\ s[SkipWs(s, a)] \in Dashes
  THEN SkipWs(s, SkipWs(s, a) + 1) ELSE 0

\* Present|present|Current|current under the i flag
MatchPresent(s, b) ==
  IF MatchLiteral(s, b, Chars("Present")) > 0 THEN MatchLiteral(s, b, Chars("Present"))
  ELSE MatchLiteral(s, b, Chars("Current"))

\* /(\d{4})\s*[-–—]\s*(\d{4}|Present|present|Current|current)\s*([^\n])/gi:
\* <<end of $1, start of $2, end of $2, index of $3>>, or zeros
YearRangeGroups(s, i) ==
  LET b == IF AllDigits(s, i, 4) THEN MatchDash(s, i + 4) ELSE 0
      c == IF b = 0 THEN 0
           ELSE IF AllDigits(s, b, 4) THEN b + 4 ELSE MatchPresent(s, b)
      m == TailChar(s, c)
  IN IF m > 0 THEN <<i + 4, b, c, m>> ELSE <<0, 0, 0, 0>>

\* \d{1,2}\/\d{4} from index i: the index after it, or 0
MatchMonthYear(s, i) ==
  IF AllDigits(s, i, 2) /\ i + 2 <= Len(s) /\ s[i + 2] = "/" /\ AllDigits(s, i + 3, 4)
  THEN i + 7
  ELSE IF AllDigits(s, i, 1) /\ i + 1 <= Len(s) /\ s[i + 1] = "/" /\ AllDigits(s, i + 2, 4)
       THEN i + 6 ELSE 0

\* /(\d{1,2}\/\d{4})\s*[-–—]\s*(\d{1,2}\/\d{4}|Present|present|Current|current)\s*([^\n])/gi
MonthRangeGroups(s, i) ==
  LET a == MatchMonthYear(s, i)
      b == IF a = 0 THEN 0 ELSE MatchDash(s, a)
      c == IF b = 0 THEN 0
           ELSE IF MatchMonthYear(s, b) > 0 THEN MatchMonthYear(s, b)
           ELSE MatchPresent(s, b)
      m == TailChar(s, c)
  IN IF m > 0 THEN <<a, b, c, m>> ELSE <<0, 0, 0, 0>>

sectionHeaders ==
  << Chars("Experience"), Chars("Education"), Chars("Skills"), Chars("Languages"),
     Chars("Projects"), Chars("Certifications"), Chars("References"),
     Chars("Responsibilities"), Chars("Achievements"), Chars("Key responsibilities"),
     Chars("Work Experience"), Chars("Professional Experience"),
     Chars("Technical Skills"), Chars("Soft Skills"), Chars("Publications"),
     Chars("Awards"), Chars("Volunteer Work"), Chars("Interests"), Chars("Hobbies"),
     Chars("Contact Information"), Chars("Summary"), Chars("Objective"),
     Chars("Personal Statement"), Chars("Professional Summary"),
     Chars("Career Highlights") >>

\* (Experience|Education|...) under the i flag: the end of the first
\* alternative that matches at i, or 0 (no header is a prefix of another)
MatchHeader(s, i) ==
  IF \E h \in 1..Len(sectionHeaders) : MatchLiteral(s, i, sectionHeaders[h]) > 0
  THEN MatchLiteral(s, i, sectionHeaders[
         CHOOSE h \in 1..Len(sectionHeaders) :
           /\ MatchLiteral(s, i, sectionHeaders[h]) > 0
           /\ \A g \in 1..(h - 1) : MatchLiteral(s, i, sectionHeaders[g]) = 0])
  ELSE 0

\* \s*:?\s*([^\n]) from index j: the index of the character the group takes,
\* or 0.  The colon is taken when it is there, unless nothing but newlines
\* follows it: then the colon itself is the character of the group.
HeaderTailChar(s, j) ==
  LET a == SkipWs(s, j)
  IN IF a <= Len(s) /\ s[a] = ":"
     THEN (IF TailChar(s, a + 1) > 0 THEN TailChar(s, a + 1) ELSE a)
     ELSE TailChar(s, j)

\* /(Experience|...)\s*:?\s*([^\n])/gi: <<end of $1, index of $2>>, or zeros
HeaderGroups(s, i) ==
  LET j == MatchHeader(s, i)
      m == IF j = 0 THEN 0 ELSE HeaderTailChar(s, j)
  IN IF m > 0 THEN <<j, m>> ELSE <<0, 0>>

\* /\n\s*\n\s*\n+/g: from a newline, up to the last newline of the
\* whitespace run it starts, when the run holds three newlines or more
MatchBlankLines(s, i) ==
  LET e == SkipWs(s, i)
      nl == {n \in i..(e - 1) : s[n] = "\n"}
  IN IF s[i] = "\n" /\ Cardinality(nl) >= 3
     THEN (CHOOSE n \in nl : \A q \in nl : q <= n) + 1 ELSE 0

(***************************************************************************)
(* cleanAndFormatText: the regular expressions of the multi-page viewer    *)
(* (components/PDFViewer.tsx)                                              *)
(***************************************************************************)
\* [\u2022\u25cf\u25a0\u25c6\u25cb\u25e6-]
CleanBullets == {"U+2022", "U+25CF", "U+25A0", "U+25C6", "U+25CB", "U+25E6", "-"}

\* /([\u2022\u25cf\u25a0\u25c6\u25cb\u25e6-])\s*/g
MatchBulletRun(s, i) == IF s[i] \in CleanBullets THEN SkipWs(s, i + 1) ELSE 0

\* (?:\b([a-zA-Z]) )+ from index i, as far as it goes
RECURSIVE LetterPairsEnd(_, _)
LetterPairsEnd(s, i) ==
  IF WordBoundary(s, i) /\ i + 1 <= Len(s) /\ s[i] \in Letters /\ s[i + 1] = " "
  THEN LetterPairsEnd(s, i + 2) ELSE i

\* singleLetterPattern, /(?:\b([a-zA-Z]) )+([a-zA-Z])\b/g: when no letter on
\* a word boundary follows the pairs, the last pair gives its letter back
MatchSingleLetters(s, i) ==
  LET j == LetterPairsEnd(s, i)
  IN IF j = i THEN 0
     ELSE IF j <= Len(s) /\ s[j] \in Letters /\ WordBoundary(s, j + 1) THEN j + 1
     ELSE IF j - 2 > i THEN j - 1
     ELSE 0

\* Array.from(text.matchAll(singleLetterPattern)): match[0] of each match
RECURSIVE SingleLetterMatches(_, _)
SingleLetterMatches(s, i) ==
  IF i > Len(s) THEN <<>>
  ELSE LET e == MatchSingleLetters(s, i)
       IN IF e > i THEN <<SubSeq(s, i, e - 1)>> \o SingleLetterMatches(s, e)
          ELSE SingleLetterMatches(s, i + 1)

\* fullMatch.replace(/ /g, '')
RECURSIVE DropSpaces(_)
DropSpaces(s) ==
  IF s = <<>> THEN <<>>
  ELSE (IF Head(s) = " " THEN <<>> ELSE <<Head(s)>>) \o DropSpaces(Tail(s))

\* s.replace(sub, by) with a string sub: the first occurrence only
ReplaceFirst(s, sub, by) ==
  IF Contains(s, sub)
  THEN LET k == CHOOSE k \in 1..(Len(s) + 1) :
                  OccursAt(s, sub, k) /\ \A j \in 1..(k - 1) : ~OccursAt(s, sub, j)
       IN SubSeq(s, 1, k - 1) \o by \o SubSeq(s, k + Len(sub), Len(s))
  ELSE s

\* the loop over the matches
RECURSIVE JoinMatches(_, _)
JoinMatches(result, matches) ==
  IF matches = <<>> THEN result
  ELSE LET joined == DropSpaces(Head(matches))
       IN JoinMatches(IF Len(joined) > 2
                      THEN ReplaceFirst(result, Head(matches), joined)
                      ELSE result,
                      Tail(matches))

fixSpacedLetters(t) == JoinMatches(t, SingleLetterMatches(t, 1))

\* /[ \t]+/g
MatchBlanks(s, i) == IF s[i] \in {" ", "\t"} THEN SkipBlanks(s, i) ELSE 0

\* /\n\s+/g
MatchNewlineSpaces(s, i) ==
  IF s[i] = "\n" /\ SkipWs(s, i + 1) > i + 1 THEN SkipWs(s, i + 1) ELSE 0

\* /\s+\n/g: up to the last newline of the whitespace run
MatchSpacesNewline(s, i) ==
  LET nl == {n \in (i + 1)..(SkipWs(s, i) - 1) : s[n] = "\n"}
  IN IF s[i] \in WhiteSpace /\ nl # {}
     THEN (CHOOSE n \in nl : \A q \in nl : q <= n) + 1 ELSE 0

\* /([a-z])- ?\n([a-z])/gi
MatchHyphenBreak(s, i) ==
  LET n == IF i + 2 <= Len(s) /\ s[i + 2] = " " THEN i + 3 ELSE i + 2
  IN IF /\ n + 1 <= Len(s)
        /\ s[i] \in Letters
        /\ s[i + 1] = "-"
        /\ s[n] = "\n"
        /\ s[n + 1] \in Letters
     THEN n + 2 ELSE 0

\* /([a-z])\n([a-z])/gi
MatchLineJoin(s, i) ==
  IF i + 2 <= Len(s) /\ s[i] \in Letters /\ s[i + 1] = "\n" /\ s[i + 2] \in Letters
  THEN i + 3 ELSE 0

\* /(\d{1,2}\/\d{4}|\d{4})\s*[-–—]\s*(\d{1,2}\/\d{4}|\d{4}|Present)/gi
MatchCleanRange(s, i) ==
  LET a == IF MatchMonthYear(s, i) > 0 THEN MatchMonthYear(s, i)
           ELSE IF AllDigits(s, i, 4) THEN i + 4 ELSE 0
      b == IF a = 0 THEN 0 ELSE MatchDash(s, a)
  IN IF b = 0 THEN 0
     ELSE IF MatchMonthYear(s, b) > 0 THEN MatchMonthYear(s, b)
     ELSE IF AllDigits(s, b, 4) THEN b + 4
     ELSE MatchLiteral(s, b, Chars("Present"))

\* what . does not match, and what ^ and $ take for the end of a line
LineTerminators == {"\n", "\r", "U+2028", "U+2029"}

\* ^ under the m flag
AtLineStart(s, i) == i = 1 \/ s[i - 1] \in LineTerminators

jobTitles ==
  << Chars("Project Manager"), Chars("Head Of"), Chars("Director"), Chars("Manager"),
     Chars("Engineer"), Chars("Developer"), Chars("Designer"), Chars("Consultant"),
     Chars("Analyst"), Chars("Specialist") >>

\* the first alternative of lits that matches at i, any casing: its end, or 0
MatchOneOf(lits, s, i) ==
  IF \E h \in 1..Len(lits) : MatchLiteral(s, i, lits[h]) > 0
  THEN MatchLiteral(s, i, lits[CHOOSE h \in 1..Len(lits) :
                                 /\ MatchLiteral(s, i, lits[h]) > 0
                                 /\ \A g \in 1..(h - 1) : MatchLiteral(s, i, lits[g]) = 0])
  ELSE 0

\* /^(.{0,50})(Project Manager|...|Specialist)/gim: .{0,50} is greedy, so
\* the title is the last one that begins within 50 characters of the line
\* start
MatchJobTitle(s, i) ==
  IF AtLineStart(s, i)
  THEN LET starts == {p \in i..(i + 50) :
                        /\ p <= Len(s)
                        /\ \A q \in i..(p - 1) : s[q] \notin LineTerminators
                        /\ MatchOneOf(jobTitles, s, p) > 0}
       IN IF starts = {} THEN 0
          ELSE MatchOneOf(jobTitles, s, CHOOSE p \in starts : \A q \in starts : q <= p)
  ELSE 0

\* the sectionHeaders of cleanAndFormatText
cleanSectionHeaders ==
  << Chars("Experience"), Chars("Education"), Chars("Skills"), Chars("Languages"),
     Chars("Projects"), Chars("Certifications"), Chars("References"),
     Chars("Responsibilities"), Chars("Achievements") >>

\* first index >= i of s that holds a newline (Len(s) + 1 when none)
RECURSIVE LineEnd(_, _)
LineEnd(s, i) == IF i <= Len(s) /\ s[i] # "\n" THEN LineEnd(s, i + 1) ELSE i

\* first index >= i of s that holds no s (of either case)
RECURSIVE SkipEss(_, _)
SkipEss(s, i) == IF i <= Len(s) /\ s[i] \in {"s", "S"} THEN SkipEss(s, i + 1) ELSE i

\* sectionRegex is built from a template literal, in which \s is the letter
\* s and \b is the backspace character U+0008: from index k on it wants
\* s*, a backspace, a header, a backspace, and takes the rest of the line
SectionRest(s, k) ==
  LET a == SkipEss(s, k)
      h == IF a <= Len(s) /\ s[a] = "U+0008"
           THEN MatchOneOf(cleanSectionHeaders, s, a + 1) ELSE 0
  IN IF h > 0 /\ h <= Len(s) /\ s[h] = "U+0008" THEN LineEnd(s, h + 1) ELSE 0

\* new RegExp(`(^|\n)\s*\b(...)\b[^\n]*`, 'gim')
MatchSectionLine(s, i) ==
  IF AtLineStart(s, i) /\ SectionRest(s, i) > 0 THEN SectionRest(s, i)
  ELSE IF s[i] = "\n" THEN SectionRest(s, i + 1)
  ELSE 0

(***************************************************************************)
(* String.prototype.replace with a global regular expression               *)
(***************************************************************************)
\* the end (not included) of the match of re that starts at index i, or 0
MatchEnd(re, s, i) ==
  CASE re = "hyphenNewline" -> MatchHyphenNewline(s, i)
    [] re = "newlines3" -> MatchNewlines3(s, i)
    [] re = "sentenceEnd" -> MatchSentenceEnd(s, i)
    [] re = "emoji" -> IF IsEmoji(s[i]) THEN i + 1 ELSE 0
    [] re = "pageBreak" -> MatchPageBreak(s, i)
    [] re \in {"bullets1", "bullets2", "bullets3", "bullets4", "bullets5", "bullets6"} ->
         IF s[i] \in BulletClasses[CHOOSE k \in 1..6 :
                                     re = <<"bullets1", "bullets2", "bullets3",
                                            "bullets4", "bullets5", "bullets6">>[k]]
         THEN i + 1 ELSE 0
    [] re = "bar" -> IF s[i] = "|" THEN i + 1 ELSE 0
    [] re = "dehyphen" -> DehyphenGroups(s, i)[3]
    [] re = "letters6" -> MatchLetterRun(6, s, i)
    [] re = "letters5" -> MatchLetterRun(5, s, i)
    [] re = "letters4" -> MatchLetterRun(4, s, i)
    [] re = "letters3" -> MatchLetterRun(3, s, i)
    [] re = "letters2" -> MatchLetterRun(2, s, i)
    [] re = "spaces" -> MatchSpaces(s, i)
    [] re = "sentence" -> MatchSentence(s, i)
    [] re = "yearRange" -> IF YearRangeGroups(s, i)[4] > 0 THEN YearRangeGroups(s, i)[4] + 1 ELSE 0
    [] re = "monthRange" -> IF MonthRangeGroups(s, i)[4] > 0 THEN MonthRangeGroups(s, i)[4] + 1 ELSE 0
    [] re = "sectionHeader" -> IF HeaderGroups(s, i)[2] > 0 THEN HeaderGroups(s, i)[2] + 1 ELSE 0
    [] re = "blankLines" -> MatchBlankLines(s, i)
    [] re = "bulletRun" -> MatchBulletRun(s, i)
    [] re = "blanks" -> MatchBlanks(s, i)
    [] re = "newlineSpaces" -> MatchNewlineSpaces(s, i)
    [] re = "spacesNewline" -> MatchSpacesNewline(s, i)
    [] re = "hyphenBreak" -> MatchHyphenBreak(s, i)
    [] re = "lineJoin" -> MatchLineJoin(s, i)
    [] re = "cleanRange" -> MatchCleanRange(s, i)
    [] re = "jobTitle" -> MatchJobTitle(s, i)
    [] re = "sectionLine" -> MatchSectionLine(s, i)

\* what replaces the match of re from i up to (not including) e
Replacement(re, s, i, e) ==
  CASE re \in {"hyphenNewline", "emoji", "pageBreak", "bar", "bullets1", "bullets2",
               "bullets3", "bullets4", "bullets5", "bullets6"} -> <<>>
    [] re \in {"newlines3", "blankLines"} -> <<"\n", "\n">>
    [] re = "sentenceEnd" -> <<s[i], "\n", "\n">>
    [] re = "dehyphen" ->
         SubSeq(s, i, DehyphenGroups(s, i)[1] - 1) \o SubSeq(s, DehyphenGroups(s, i)[2], e - 1)
    [] re \in {"letters6", "letters5", "letters4", "letters3", "letters2"} ->
         DropWhiteSpace(SubSeq(s, i, e - 1))
    [] re = "spaces" -> <<" ">>
    [] re = "sentence" -> <<".", "\n", "\n", s[e - 1]>>
    [] re = "yearRange" ->
         LET g == YearRangeGroups(s, i)
         IN SubSeq(s, i, g[1] - 1) \o <<"-">> \o SubSeq(s, g[2], g[3] - 1)
              \o <<"\n", "\n", s[g[4]]>>
    [] re = "monthRange" ->
         LET g == MonthRangeGroups(s, i)
         IN SubSeq(s, i, g[1] - 1) \o <<" ", "-", " ">> \o SubSeq(s, g[2], g[3] - 1)
              \o <<"\n", "\n", s[g[4]]>>
    [] re = "sectionHeader" ->
         LET g == HeaderGroups(s, i)
         IN SubSeq(s, i, g[1] - 1) \o <<":", "\n", "\n", s[g[2]]>>
    [] re = "bulletRun" -> <<>>
    [] re = "blanks" -> <<" ">>
    [] re \in {"newlineSpaces", "spacesNewline"} -> <<"\n">>
    [] re = "hyphenBreak" -> <<s[i], s[e - 1]>>
    [] re = "lineJoin" -> <<s[i], " ", s[e - 1]>>
    [] re \in {"cleanRange", "sectionLine"} -> <<"\n", "\n">> \o SubSeq(s, i, e - 1) \o <<"\n">>
    [] re = "jobTitle" -> <<"\n", "\n">> \o SubSeq(s, i, e - 1)

\* s.replace(re, ...) with the g flag, from index i on: scan left to right;
\* where re matches, emit the replacement and go on after the match;
\* elsewhere copy one character.  No pattern of the program matches the
\* empty string.
RECURSIVE ReplaceFrom(_, _, _)
ReplaceFrom(re, s, i) ==
  IF i > Len(s) THEN <<>>
  ELSE LET e == MatchEnd(re, s, i)
       IN IF e > i THEN Replacement(re, s, i, e) \o ReplaceFrom(re, s, e)
          ELSE <<s[i]>> \o ReplaceFrom(re, s, i + 1)

ReplaceAll(re, s) == ReplaceFrom(re, s, 1)

\* the replaces of res, one after the other
RECURSIVE ReplaceEach(_, _)
ReplaceEach(res, s) ==
  IF res = <<>> THEN s ELSE ReplaceEach(Tail(res), ReplaceAll(Head(res), s))

(***************************************************************************)
(* formatTextContent, the post-pass                                        *)
(***************************************************************************)
\* the three replaces and the trim after the emission loop
PostPass(result) ==
  Trim(ReplaceEach(<<"hyphenNewline", "newlines3", "sentenceEnd">>, result))

\* formatTextContent of the single-page viewer (services/openai.ts) raises
Throws(its) == ThrowsAt(Mapped(its)) > 0

\* what it returns when it does not raise
formatTextContent(its) ==
  LET mapped == Mapped(its)
  IN PostPass(Assemble(BuildLines(mapped, Len(mapped)), 1))

(***************************************************************************)
(* formatTextContent and cleanAndFormatText of the multi-page viewer       *)
(***************************************************************************)
\* lines 148-156: emojis, page break markers, bullets and hyphens, bars
CleanSymbols(t) == ReplaceEach(<<"emoji", "pageBreak", "bulletRun", "bar">>, t)

\* lines 162-165: whitespace
CleanWhiteSpace(t) ==
  ReplaceEach(<<"blanks", "newlineSpaces", "spacesNewline", "newlines3">>, t)

\* lines 168-187: line ends, date ranges, job titles, section headers,
\* sentences, newlines
CleanStructure(t) ==
  ReplaceEach(<<"hyphenBreak", "lineJoin", "cleanRange", "jobTitle", "sectionLine",
                "sentenceEnd", "newlines3">>, t)

cleanAndFormatText(t) ==
  IF t = <<>> THEN <<>>
  ELSE Trim(CleanStructure(CleanWhiteSpace(fixSpacedLetters(CleanSymbols(t)))))

\* formatTextContent of the multi-page viewer (components/PDFViewer.tsx):
\* the same loops, the same three replaces, then cleanAndFormatText
formatTextContentMulti(its) ==
  LET mapped == Mapped(its)
      result == Assemble(BuildLines(mapped, Len(mapped)), 1)
  IN Trim(cleanAndFormatText(
            ReplaceEach(<<"hyphenNewline", "newlines3", "sentenceEnd">>, result)))

(***************************************************************************)
(* correctText: the Text Normalizer                                        *)
(***************************************************************************)
\* lines 14-29: emojis, page break markers, bullets, vertical bars
StripSymbols(t) ==
  ReplaceEach(<<"emoji", "pageBreak", "bullets1", "bullets2", "bullets3",
                "bullets4", "bullets5", "bullets6", "bar">>, t)

\* line 32: words split across lines
Dehyphenate(t) == ReplaceAll("dehyphen", t)

\* the letter patterns, shortest first
JoinSpacedLettersShortestFirst(t) ==
  ReplaceEach(<<"letters2", "letters3", "letters4", "letters5", "letters6">>, t)

\* lines 35-39: letters with spaces between them, longest pattern first
JoinSpacedLetters(t) ==
  ReplaceEach(<<"letters6", "letters5", "letters4", "letters3", "letters2">>, t)

\* line 42 without the trim
FixSpacesUntrimmed(t) == ReplaceAll("spaces", t)

\* line 42: extra spaces
FixSpaces(t) == Trim(ReplaceAll("spaces", t))

\* line 45: paragraph breaks after sentences
SentenceBreaks(t) == ReplaceAll("sentence", t)

\* lines 48-49: breaks after date ranges
DateRanges(t) == ReplaceEach(<<"yearRange", "monthRange">>, t)

\* lines 61-62: breaks after section headers
SectionHeaders(t) == ReplaceAll("sectionHeader", t)

\* line 65: consecutive line breaks
FinalNewlines(t) == ReplaceAll("blankLines", t)

\* formattedText when the letter-spacing repair begins (line 35)
BeforeLetters(t) == Dehyphenate(StripSymbols(t))

\* formattedText when the whitespace normalization begins (line 42)
BeforeSpaces(t) == JoinSpacedLetters(BeforeLetters(t))

\* formattedText when the sentence paragraphing begins (line 45)
BeforeSentences(t) == FixSpaces(BeforeSpaces(t))

\* formattedText when the date-range spacing begins (line 48)
BeforeDates(t) == SentenceBreaks(BeforeSentences(t))

\* formattedText when the section-header spacing begins (line 61)
BeforeHeaders(t) == DateRanges(BeforeDates(t))

\* formattedText when the final cleanup begins (line 65)
BeforeCleanup(t) == SectionHeaders(BeforeHeaders(t))

\* line 10: !text holds of '', undefined and null
correctText(t) ==
  IF t = <<>> \/ IsNullish(t) THEN <<>> ELSE FinalNewlines(BeforeCleanup(t))

(***************************************************************************)
(* Inputs of the reconstructor                                             *)
(***************************************************************************)
MaxGeoFrags == 3
MaxTextFrags == 2

SeqsUpTo(S, n) == UNION {[1..k -> S] : k \in 0..n}

Item(s, px, py) == [str |-> s, transform |-> <<1, 0, 0, 1, px, py>>, x |-> <<>>, y |-> <<>>]

GeoItems == {Item(<<"a">>, px, py) : px \in {0, 50}, py \in {100, 97, 96, 95, 88, 87}}

TextStrs == {Chars("Hello"), Chars("World"), <<>>, Chars("a "), Chars(" b"),
             Chars("c\t"), Chars("d-"), Chars("e.")}

TextItems == {Item(s, px, py) : s \in TextStrs, px \in {0, 50}, py \in {100, 88, 87}}

\* items without str, without transform, without x or y
MaxDegenerateFrags == 2

DegenerateItems ==
  [str : {undefined, null, Chars("a"), Chars("b ")},
   transform : {<<>>, <<1, 0, 0, 1, 50, 100>>},
   x : {<<>>, <<7>>},
   y : {<<>>, <<100>>}]

\* a page of one item
SingleStrs == {Chars(" Hi. There "), Chars("e.  Hello"), Chars("d-\n"), Chars("x\n\n\ny"),
               Chars("ok! Go"), Chars(" plain\t"), <<"U+00A0", "x", "U+3000">>, <<>>}

SingleItems == {<<Item(s, 10, 700)>> : s \in SingleStrs}

ReconInputs ==
  SeqsUpTo(GeoItems, MaxGeoFrags) \cup SeqsUpTo(TextItems, MaxTextFrags)
    \cup SeqsUpTo(DegenerateItems, MaxDegenerateFrags) \cup SingleItems

(***************************************************************************)
(* Specification of the reconstructor                                      *)
(***************************************************************************)
ReconInit ==
  /\ pc = "ready"
  /\ items \in ReconInputs
  /\ lines = <<>>
  /\ pageText = <<>>
  /\ text = <<>>
  /\ formattedText = <<>>
  /\ NoViewer

\* onPageLoadSuccess: the callback of getTextContent().then; when
\* formatTextContent raises, onTextExtracted is not called
FormatTextContent ==
  /\ pc = "ready"
  /\ IF Throws(items)
     THEN /\ pc' = "threw"
          /\ lines' = BuildLines(Mapped(items), ThrowsAt(Mapped(items)) - 1)
          /\ pageText' = pageText
     ELSE /\ pc' = "formatted"
          /\ lines' = BuildLines(Mapped(items), Len(items))
          /\ pageText' = formatTextContent(items)
  /\ UNCHANGED <<items, text, formattedText, viewerVars>>

ReconNext == FormatTextContent

ReconSpec == ReconInit /\ [][ReconNext]_vars

(***************************************************************************)
(* The reconstructor on the items of a page, supplied in any order         *)
(***************************************************************************)
MaxOrderFrags == 3

OrderItems ==
  {Item(s, px, py) : s \in {Chars("Hello"), Chars("World")}, px \in {0, 50}, py \in {100, 97}}
    \cup {Item(undefined, 25, 97)}

OrderInputs == SeqsUpTo(OrderItems, MaxOrderFrags)

OrderInit ==
  /\ pc = "ready"
  /\ items \in OrderInputs
  /\ lines = <<>>
  /\ pageText = <<>>
  /\ text = <<>>
  /\ formattedText = <<>>
  /\ NoViewer

OrderNext == FormatTextContent

OrderSpec == OrderInit /\ [][OrderNext]_vars

(***************************************************************************)
(* Reconstructor: what the claims speak of                                 *)
(***************************************************************************)
\* the line (index into `lines`) that holds the k-th fragment of mapped
LineOf(mapped, k) == Len(BuildLines(mapped, k))

\* the k-th fragment of mapped opened a line
Opened(mapped, k) == LineOf(mapped, k) # LineOf(mapped, k - 1)

\* prev, as forEach sees it when it appends the k-th fragment of mapped
PrevPart(mapped, k) == Prev(BuildLines(mapped, k - 1)[LineOf(mapped, k - 1)])

\* the part forEach pushed for the k-th fragment of mapped
PushedPart(mapped, k) ==
  LET last == BuildLines(mapped, k)[LineOf(mapped, k)]
  IN last.text[Len(last.text)]

\* forEach put a space in front of the k-th fragment of mapped
InsertedSpace(mapped, k) == PushedPart(mapped, k) = <<" ">> \o StringOf(mapped[k].str)

EndsWithWhiteSpace(s) == Len(s) > 0 /\ s[Len(s)] \in WhiteSpace
StartsWithWhiteSpace(s) == Len(s) > 0 /\ s[1] \in WhiteSpace

\* C1: in every line the fragments put in it, taken in the order they were
\* put, have non-decreasing x (also when their y differ within the threshold).
C1_LineXNonDecreasing ==
  pc = "formatted" =>
    LET m == Mapped(items)
    IN \A i, j \in 1..Len(m) :
         (i < j /\ LineOf(m, i) = LineOf(m, j)) => m[i].x <= m[j].x

\* S is the set of the fragments that open a line according to the claim:
\* the first one, and every one whose y is more than 4 away from the y of the
\* latest opener before it.
IsOpenerSet(ys, S) ==
  \A i \in 1..Len(ys) :
    i \in S <=> \/ i = 1
                \/ \E r \in S : /\ r < i
                                /\ \A j \in S : j < i => j <= r
                                /\ Abs(ys[i] - ys[r]) > 4

\* the run a..b of ys stays within 4, and cannot be extended by b + 1
IsMaximalRun(ys, a, b) ==
  /\ \A i, j \in a..b : Abs(ys[i] - ys[j]) <= 4
  /\ b < Len(ys) => \E i \in a..b : Abs(ys[b + 1] - ys[i]) > 4

\* C2: the number of lines is the number of maximal runs of sorted fragments
\* whose y stay within 4 of each other; a fragment opens a line exactly when
\* its y is more than 4 away from the y of the first fragment of the current
\* line, which is the line's representative y.
C2_LineCountIsRunCount ==
  pc = "formatted" =>
    LET m == Mapped(items)
        n == Len(m)
        ys == [k \in 1..n |-> m[k].y]
        Openers == {S \in SUBSET (1..n) : IsOpenerSet(ys, S)}
    IN /\ Cardinality(Openers) = 1
       /\ \A S \in Openers :
            /\ Len(lines) = Cardinality(S)
            /\ \A k \in 1..n : k \in S <=> Opened(m, k)
            /\ \A a \in S :
                 LET b == CHOOSE e \in a..n :
                            /\ \A k \in (a + 1)..e : k \notin S
                            /\ e < n => (e + 1) \in S
                 IN /\ IsMaximalRun(ys, a, b)
                    /\ lines[LineOf(m, a)].y = ys[a]
                    /\ LineOf(m, b) = LineOf(m, a)

\* three fragments, the third within 4 of the second but not of the first:
\* it opens the second line
C2_Witness ==
  /\ pc = "formatted"
  /\ Len(items) = 3
  /\ Len(lines) = 2
  /\ LET m == Mapped(items)
     IN /\ Abs(m[3].y - m[2].y) <= 4
        /\ Abs(m[3].y - m[1].y) > 4
        /\ Opened(m, 3)

\* the text the claim expects from `lines`: the trimmed lines, "\n\n" after
\* a line whose y is more than 12 away from the next one's, "\n" otherwise
RECURSIVE ClaimedText(_, _)
ClaimedText(ls, i) ==
  IF i > Len(ls) THEN <<>>
  ELSE Trim(Join(ls[i].text))
       \o (IF i = Len(ls) THEN <<>>
           ELSE (IF Abs(ls[i].y - ls[i + 1].y) > 12 THEN <<"\n", "\n">> ELSE <<"\n">>)
                \o ClaimedText(ls, i + 1))

NoEmptyLine(ls) == \A i \in 1..Len(ls) : Trim(Join(ls[i].text)) # <<>>

\* C3 as claimed: in the returned string consecutive lines (none of them
\* empty) are separated by "\n\n" when their y gap exceeds 12 and by one
\* "\n" otherwise.
C3_ReturnedSeparators ==
  (pc = "formatted" /\ NoEmptyLine(lines)) => pageText = ClaimedText(lines, 1)

\* the post-pass has something to rewrite in s
PostPassMatches(s) ==
  \E i \in 1..Len(s) :
    \/ MatchHyphenNewline(s, i) > 0
    \/ MatchNewlines3(s, i) > 0
    \/ MatchSentenceEnd(s, i) > 0

\* C3, amended: the string the emission loop assembles has "\n\n" between
\* lines whose y gap exceeds 12 and one "\n" between the others; the
\* returned string is that string, trimmed, unless the post-pass finds a
\* hyphen before a newline, three newlines, or a sentence end before an
\* uppercase letter.
C3_AssembledSeparators ==
  pc = "formatted" =>
    /\ Assemble(lines, 1) = ClaimedText(lines, 1)
    /\ ~PostPassMatches(Assemble(lines, 1)) => pageText = Trim(ClaimedText(lines, 1))

C3_Witness ==
  /\ pc = "formatted"
  /\ Len(lines) = 2
  /\ NoEmptyLine(lines)
  /\ Abs(lines[1].y - lines[2].y) = 12
  /\ ~PostPassMatches(Assemble(lines, 1))
  /\ \E i \in 1..Len(pageText) : pageText[i] = "\n"

\* C4 as claimed: a space goes in front of an appended (non-empty) fragment
\* exactly when prev does not end with whitespace and the fragment does not
\* begin with whitespace.
C4_SpaceIffNoWhiteSpace ==
  pc = "formatted" =>
    LET m == Mapped(items)
    IN \A k \in 1..Len(m) :
         (~Opened(m, k) /\ m[k].str # <<>> /\ ~IsNullish(m[k].str)) =>
           (InsertedSpace(m, k) <=>
              (~EndsWithWhiteSpace(PrevPart(m, k)) /\ ~StartsWithWhiteSpace(m[k].str)))

HelloWorld == <<Item(Chars("Hello"), 0, 100), Item(Chars("World"), 50, 100)>>

\* C4, amended: a space goes in front of an appended fragment (its text a
\* string) exactly when
\* prev is not empty, prev does not end with the space character and the
\* fragment does not begin with the space character; so between two
\* non-empty neighbours of a line there is a space, never one put in next to
\* a space that is already there, and Hello, World gives "Hello World".
C4_SpaceIffNoSpace ==
  pc = "formatted" =>
    LET m == Mapped(items)
    IN /\ \A k \in 1..Len(m) :
            (~Opened(m, k) /\ ~IsNullish(m[k].str)) =>
              LET prev == PrevPart(m, k)
                  str == m[k].str
              IN /\ InsertedSpace(m, k) <=>
                      (prev # <<>> /\ prev[Len(prev)] # " "
                         /\ (str = <<>> \/ str[1] # " "))
                 /\ ~InsertedSpace(m, k) => PushedPart(m, k) = str
                 /\ (prev # <<>> /\ str # <<>>) =>
                      (prev[Len(prev)] = " " \/ PushedPart(m, k)[1] = " ")
       /\ items = HelloWorld => pageText = Chars("Hello World")

\* a fragment appended after an empty prev, without a space
C4_Witness ==
  /\ pc = "formatted"
  /\ LET m == Mapped(items)
     IN \E k \in 1..Len(m) :
          /\ ~Opened(m, k)
          /\ PrevPart(m, k) = <<>>
          /\ m[k].str # <<>>
          /\ ~InsertedSpace(m, k)

\* its, an empty string put for every str that is undefined or null
WithEmptyStr(its) ==
  [k \in 1..Len(its) |->
     [its[k] EXCEPT !.str = IF IsNullish(its[k].str) THEN <<>> ELSE its[k].str]]

\* C15: formatTextContent never raises; it returns what it returns when
\* every str that is undefined or null is the empty string, and an item
\* without coordinates is at 0; correctText returns '' for a text that is
\* empty, undefined or null.
C15_NeverRaisesOnDegenerate ==
  /\ pc # "threw"
  /\ pc = "formatted" =>
       /\ pageText = formatTextContent(WithEmptyStr(items))
       /\ \A k \in 1..Len(items) :
            /\ (items[k].transform = <<>> /\ items[k].x = <<>>) => MapItem(items[k]).x = 0
            /\ (items[k].transform = <<>> /\ items[k].y = <<>>) => MapItem(items[k]).y = 0
  /\ (pc = "corrected" /\ (text = <<>> \/ IsNullish(text))) => formattedText = <<>>

\* C16 as claimed: no item gives the empty string, one item (its text a
\* string) gives its text, trimmed and nothing else.
C16_SingleFragmentTrimmed ==
  pc = "formatted" =>
    /\ items = <<>> => pageText = <<>>
    /\ (Len(items) = 1 /\ ~IsNullish(items[1].str)) => pageText = Trim(items[1].str)

\* C16, amended: no item gives the empty string; one item gives its trimmed
\* text after the post-pass, which is the trimmed text itself unless that
\* holds a hyphen before a newline, three newlines, or a sentence end before
\* whitespace and a capital; " Hi. There " gives "Hi.\n\nThere"; a str that
\* is undefined or null gives the empty string.
C16_SingleFragmentPostPassed ==
  pc = "formatted" =>
    /\ items = <<>> => pageText = <<>>
    /\ (Len(items) = 1 /\ IsNullish(items[1].str)) => pageText = <<>>
    /\ (Len(items) = 1 /\ ~IsNullish(items[1].str)) =>
         LET t == Trim(items[1].str)
         IN /\ pageText = PostPass(t)
            /\ ~PostPassMatches(t) => pageText = t
            /\ t = Chars("Hi. There") => pageText = Chars("Hi.\n\nThere")

\* one item with whitespace around its text: the text comes back trimmed
C16_Witness ==
  /\ pc = "formatted"
  /\ Len(items) = 1
  /\ ~IsNullish(items[1].str)
  /\ StartsWithWhiteSpace(items[1].str)
  /\ EndsWithWhiteSpace(items[1].str)
  /\ pageText # <<>>
  /\ pageText = Trim(items[1].str)

Orders(n) == {p \in [1..n -> 1..n] : \A i, j \in 1..n : p[i] = p[j] => i = j}

Permuted(its, p) == [i \in 1..Len(its) |-> its[p[i]]]

\* q gives what items gave: the same string, or a TypeError
SameOutcome(q) ==
  /\ Throws(q) <=> pc = "threw"
  /\ pc = "formatted" => formatTextContent(q) = pageText

\* C17 as claimed: every permutation of the items gives the same result.
C17_OrderFree ==
  pc \in {"formatted", "threw"} =>
    \A p \in Orders(Len(items)) : SameOutcome(Permuted(items, p))

\* no two items of its share x and y, unless they are the same after the map
NoTies(its) ==
  \A i, j \in 1..Len(its) :
    (MapItem(its[i]).x = MapItem(its[j]).x /\ MapItem(its[i]).y = MapItem(its[j]).y)
      => MapItem(its[i]) = MapItem(its[j])

\* C17, amended: when no two items with different text share both x and y,
\* every permutation of the items gives the same result; the sort puts
\* items with the same y in the order of their x, and leaves items with the
\* same x and y in the order they were supplied in.
C17_OrderFreeWithoutTies ==
  pc \in {"formatted", "threw"} =>
    /\ NoTies(items) =>
         \A p \in Orders(Len(items)) : SameOutcome(Permuted(items, p))
    /\ LET m == Mapped(items)
       IN \A i, j \in 1..Len(m) : (i < j /\ m[i].y = m[j].y) => m[i].x <= m[j].x

\* World supplied before Hello
C17_Witness ==
  /\ pc = "formatted"
  /\ items = <<Item(Chars("World"), 50, 100), Item(Chars("Hello"), 0, 100)>>
  /\ pageText = Chars("Hello World")

\* the trimmed text of line i
LineText(ls, i) == Trim(Join(ls[i].text))

\* C20: where a line ends with a hyphen, the output holds the line without
\* the hyphen and right after it the next line (both taken where the
\* post-pass has nothing else to rewrite in them), no newline between them.
C20_HyphenatedLinesJoined ==
  pc = "formatted" =>
    \A i \in 1..(Len(lines) - 1) :
      LET a == LineText(lines, i)
          b == LineText(lines, i + 1)
          joined == SubSeq(a, 1, Len(a) - 1) \o b
      IN (/\ EndsWith(a, "-")
          /\ ~PostPassMatches(joined)
          /\ (i + 1 < Len(lines) => ~EndsWith(b, "-")))
           => Contains(pageText, Trim(joined))

(***************************************************************************)
(* Inputs of the normalizer                                                *)
(***************************************************************************)
MaxRun == 7

\* a header of the vocabulary, after a header or not, with text behind it
HeaderCasings == {Chars("EXPERIENCE"), Chars("skills")}
HeaderForms == {sectionHeaders[h] : h \in 1..Len(sectionHeaders)} \cup HeaderCasings

HeaderTexts ==
  {pre \o h \o sep \o rest :
     pre \in {<<>>, Chars("My "), Chars("Skills ")},
     h \in HeaderForms,
     sep \in {<<" ">>, <<":", " ">>, <<":">>, <<>>},
     rest \in {Chars("Led projects"), Chars("x")}}

\* a date range, with text behind it or not
RangeEnds ==
  {<<Chars("2022"), Chars("2025")>>, <<Chars("2022"), Chars("Present")>>,
   <<Chars("2019"), Chars("current")>>, <<Chars("01/2020"), Chars("12/2021")>>,
   <<Chars("1/2020"), Chars("Present")>>}

DateTexts ==
  {pre \o ends[1] \o sp \o <<dash>> \o sp \o ends[2] \o post :
     pre \in {<<>>, Chars("Acme ")},
     ends \in RangeEnds,
     sp \in {<<>>, <<" ">>},
     dash \in Dashes,
     post \in {<<>>, Chars("x"), Chars(" Managed the team.")}}

\* two sentences
SentenceTexts ==
  {a \o <<mark>> \o ws \o b :
     a \in {Chars("Done"), Chars("ok")},
     mark \in {".", "!", "?"},
     ws \in {<<>>, <<" ">>, <<" ", " ">>, <<"\n">>},
     b \in {Chars("Next"), Chars("next"), Chars("A")}}

\* two or three lines, as the Line Reconstructor joins them
LineTexts == {Chars("a"), Chars("b c"), Chars("D.")}
Breaks == {<<"\n">>, <<"\n", "\n">>}

ReconstructedTexts ==
  {l1 \o b1 \o l2 : l1 \in LineTexts, b1 \in Breaks, l2 \in LineTexts}
    \cup {l1 \o b1 \o l2 \o b2 \o l3 :
            l1 \in LineTexts, b1 \in Breaks, l2 \in LineTexts,
            b2 \in Breaks, l3 \in {Chars("e")}}

\* the first n letters of a word, a space between each two of them
RECURSIVE Spaced(_, _)
Spaced(word, n) ==
  IF n = 1 THEN <<word[1]>> ELSE Spaced(word, n - 1) \o <<" ", word[n]>>

RunTexts ==
  {pre \o Spaced(Chars("Administrator"), n) \o post :
     n \in 2..MaxRun,
     pre \in {<<>>, Chars("to "), Chars("("), Chars("x  "), Chars("ab\n"), Chars("x-\n")},
     post \in {<<>>, Chars(" now"), Chars(")"), Chars("."), Chars("  c"), Chars("\nde")}}

\* a symbol the normalizer strips (or one it keeps: U+00E9), between two
\* words or inside a page break marker
Symbols == {"U+1F600", "U+2764", "U+2022", "U+25B8", "U+25D0", "U+25E0", "U+2605",
            "U+2665", "|", "U+00E9"}

Markers == {Chars("--- Page Break ---"), Chars("---page break---"),
            Chars("---PAGE  BREAK---")}

SymbolTexts ==
  {a \o <<sym>> \o b : a \in {Chars("a"), Chars("a ")}, sym \in Symbols,
                        b \in {Chars("b"), Chars(" b")}}
    \cup {a \o m \o b : a \in {<<>>, Chars("a"), Chars("a ")}, m \in Markers,
                        b \in {<<>>, Chars("b"), Chars(" b")}}
    \cup {SubSeq(m, 1, k) \o <<sym>> \o SubSeq(m, k + 1, Len(m)) :
            m \in Markers, k \in {2, 7}, sym \in {"|", "U+2022", "U+1F600"}}
    \cup {Chars("--- P a g e Break ---"), Chars("--- Page Bre-\nak ---")}

\* text with whitespace around it and runs of newlines in it
WhiteSpaceTexts ==
  {lead \o body \o trail :
     lead \in {<<>>, <<" ">>, <<"\n">>, <<"\n", "\n", "\n">>},
     body \in {<<>>, Chars("a"), Chars("Skills"), Chars("Skills:"), Chars("2022-2025"),
               Chars("1/2020 - Present"), Chars("Done."), Chars("a\n\n\nB"),
               Chars("a \n \n \n b"), Chars("x. \n\n A")},
     trail \in {<<>>, <<" ">>, <<"\n">>, <<"\n", "\n", "\n">>, <<" ", "\t">>}}

NormInputs ==
  HeaderTexts \cup DateTexts \cup SentenceTexts \cup ReconstructedTexts \cup RunTexts
    \cup SymbolTexts \cup WhiteSpaceTexts

(***************************************************************************)
(* Specification of the normalizer                                         *)
(***************************************************************************)
NormInit ==
  /\ pc = "ready"
  /\ items = <<>>
  /\ lines = <<>>
  /\ pageText = <<>>
  /\ text \in NormInputs
  /\ formattedText = <<>>
  /\ NoViewer

CorrectText ==
  /\ pc = "ready"
  /\ pc' = "corrected"
  /\ formattedText' = correctText(text)
  /\ UNCHANGED <<items, lines, pageText, text, viewerVars>>

NormNext == CorrectText

NormSpec == NormInit /\ [][NormNext]_vars

(***************************************************************************)
(* Normalizer: what the claims speak of                                    *)
(***************************************************************************)
\* sub occurs in s as a whole word
ContainsToken(s, sub) ==
  \E k \in 1..Len(s) :
    OccursAt(s, sub, k) /\ WordBoundary(s, k) /\ WordBoundary(s, k + Len(sub))

\* where the text that follows, on the same line, the header ending in front
\* of index j begins: after blanks, a colon if there is one, and blanks;
\* 0 when nothing follows on the line
FollowingText(s, j) ==
  LET a == SkipBlanks(s, j)
      b == IF a <= Len(s) /\ s[a] = ":" THEN SkipBlanks(s, a + 1) ELSE a
  IN IF b <= Len(s) /\ s[b] \notin WhiteSpace THEN b ELSE 0

\* the end of the piece of s from index b on that holds no header and no
\* newline
RECURSIVE PlainEnd(_, _)
PlainEnd(s, b) ==
  IF b > Len(s) \/ s[b] = "\n" \/ MatchHeader(s, b) > 0 THEN b ELSE PlainEnd(s, b + 1)

\* C5: every header of the vocabulary, in any casing, that is followed on
\* its line by other text comes out as the header, a colon, "\n\n" and the
\* following text unchanged; "Experience Led projects" gives
\* "Experience:\n\nLed projects".
C5_HeaderColonBreak ==
  pc = "corrected" =>
    /\ \A i \in 1..Len(text) :
         LET j == MatchHeader(text, i)
             b == IF j = 0 THEN 0 ELSE FollowingText(text, j)
         IN b > 0 =>
              Contains(formattedText,
                       SubSeq(text, i, j - 1) \o <<":", "\n", "\n">>
                         \o SubSeq(text, b, PlainEnd(text, b) - 1))
    /\ text = Chars("Experience Led projects") =>
         formattedText = Chars("Experience:\n\nLed projects")

\* the end of the date range of s that starts at index i, or 0
DateRangeEnd(s, i) ==
  IF YearRangeGroups(s, i)[3] > 0 THEN YearRangeGroups(s, i)[3]
  ELSE MonthRangeGroups(s, i)[3]

\* C6: a date range followed by more text comes out verbatim, "\n\n" right
\* after it.
C6_RangeVerbatimThenBreak ==
  pc = "corrected" =>
    \A i \in 1..Len(text) :
      LET e == DateRangeEnd(text, i)
          m == IF e = 0 THEN 0 ELSE SkipWs(text, e)
      IN (e > 0 /\ m <= Len(text)) =>
           Contains(formattedText, SubSeq(text, i, e - 1) \o <<"\n", "\n", text[m]>>)

\* for each whitespace run of s, in order: whether it holds a newline
RECURSIVE BreakRuns(_, _)
BreakRuns(s, i) ==
  IF i > Len(s) THEN <<>>
  ELSE IF s[i] \in WhiteSpace
       THEN <<\E n \in i..(SkipWs(s, i) - 1) : s[n] = "\n">> \o BreakRuns(s, SkipWs(s, i))
       ELSE BreakRuns(s, i + 1)

\* the whitespace characters of s, in order
RECURSIVE WhiteSpaceOf(_)
WhiteSpaceOf(s) ==
  IF s = <<>> THEN <<>>
  ELSE (IF Head(s) \in WhiteSpace THEN <<Head(s)>> ELSE <<>>) \o WhiteSpaceOf(Tail(s))

\* C7: the whitespace normalization puts one character for each whitespace
\* run, and a newline where the run held a line break or a paragraph break.
C7_NewlinesKept ==
  pc = "corrected" =>
    LET runs == BreakRuns(Trim(BeforeSpaces(text)), 1)
        out == WhiteSpaceOf(BeforeSentences(text))
    IN /\ Len(out) = Len(runs)
       /\ \A k \in 1..Len(runs) : runs[k] => out[k] = "\n"

\* where in s a mark of marks is followed by whitespace and a capital
SentenceEnds(s, marks) ==
  {i \in 1..Len(s) :
     /\ s[i] \in marks
     /\ SkipWs(s, i + 1) > i + 1
     /\ SkipWs(s, i + 1) <= Len(s)
     /\ s[SkipWs(s, i + 1)] \in UpperSet}

\* where in s a mark of marks is followed by "\n\n" and a capital
ParagraphEnds(s, marks) ==
  {i \in 1..Len(s) :
     /\ s[i] \in marks
     /\ OccursAt(s, <<"\n", "\n">>, i + 1)
     /\ i + 3 <= Len(s)
     /\ s[i + 3] \in UpperSet}

\* C8: each '.', '!' or '?' that reaches the sentence paragraphing in front
\* of whitespace and a capital has "\n\n" between it and the capital in the
\* output.
C8_BreakAfterEveryMark ==
  pc = "corrected" =>
    \A mark \in {".", "!", "?"} :
      Cardinality(SentenceEnds(BeforeSentences(text), {mark}))
        = Cardinality(ParagraphEnds(formattedText, {mark}))

\* n single letters of s from index i on, one space between each two of
\* them, on word boundaries, and no single letter one space before or after
IsRun(s, i, n) ==
  /\ i >= 1 /\ i + 2 * n - 2 <= Len(s)
  /\ \A k \in 0..(n - 1) : s[i + 2 * k] \in Letters
  /\ \A k \in 1..(n - 1) : s[i + 2 * k - 1] = " "
  /\ WordBoundary(s, i)
  /\ WordBoundary(s, i + 2 * n - 1)
  /\ ~(i >= 3 /\ s[i - 1] = " " /\ s[i - 2] \in Letters /\ WordBoundary(s, i - 2))
  /\ ~(/\ i + 2 * n <= Len(s)
       /\ s[i + 2 * n - 1] = " "
       /\ s[i + 2 * n] \in Letters
       /\ WordBoundary(s, i + 2 * n + 1))

\* no single letter stands beyond the whitespace in front of the run or
\* behind it
IsIsolatedRun(s, i, n) ==
  /\ IsRun(s, i, n)
  /\ LET p == SkipWsBack(s, i - 1)
     IN p = 0 \/ ~(s[p] \in Letters /\ WordBoundary(s, p))
  /\ LET q == SkipWs(s, i + 2 * n - 1)
     IN q > Len(s) \/ ~(s[q] \in Letters /\ WordBoundary(s, q + 1))

RunText(s, i, n) == SubSeq(s, i, i + 2 * n - 2)
RunLetters(s, i, n) == DropWhiteSpace(RunText(s, i, n))

C10_RunsWholeOrUnchanged ==
  pc = "corrected" =>
    \A i \in 1..Len(text) : \A n \in 2..((Len(text) + 1) \div 2) :
      IsRun(text, i, n) =>
        \/ Contains(formattedText, RunLetters(text, i, n))
        \/ Contains(formattedText, RunText(text, i, n))

\* the characters the normalizer strips one by one
IsStripped(c) ==
  \/ IsEmoji(c)
  \/ \E k \in 1..Len(BulletClasses) : c \in BulletClasses[k]
  \/ c = "|"

\* C11: the output holds no emoji of the stripped ranges, no bullet of the
\* stripped sets, no vertical bar and no page break marker; stripping puts
\* no whitespace in.
C11_NoStrippedSymbolLeft ==
  pc = "corrected" =>
    /\ \A k \in 1..Len(formattedText) :
         ~IsStripped(formattedText[k]) /\ MatchPageBreak(formattedText, k) = 0
    /\ Len(WhiteSpaceOf(StripSymbols(text))) <= Len(WhiteSpaceOf(text))

HasNewlines3(s) == \E i \in 1..Len(s) : OccursAt(s, <<"\n", "\n", "\n">>, i)

\* C12: the output holds no three newlines in a row, and no whitespace at
\* its start or at its end.
C12_NoNewlines3Trimmed ==
  pc = "corrected" =>
    /\ ~HasNewlines3(formattedText)
    /\ Trim(formattedText) = formattedText

\* whitespace around the input and three newlines in it, a paragraph break
\* in the output
C12_Witness ==
  /\ pc = "corrected"
  /\ text # <<>>
  /\ text[1] \in WhiteSpace
  /\ text[Len(text)] \in WhiteSpace
  /\ HasNewlines3(text)
  /\ Contains(formattedText, <<"\n", "\n">>)

\* C13: when correctText runs on its own output, the whitespace step
\* (line 42) and the final cleanup (line 65) return what they receive.
C13_StepsStableOnOutput ==
  pc = "corrected" =>
    /\ FixSpaces(BeforeSpaces(formattedText)) = BeforeSpaces(formattedText)
    /\ FinalNewlines(BeforeCleanup(formattedText)) = BeforeCleanup(formattedText)

\* C14: every character of the output is a character of the input, a
\* space, a newline or a colon.
C14_OnlyInputCharsOrInserted ==
  pc = "corrected" =>
    \A k \in 1..Len(formattedText) :
      \/ formattedText[k] \in {" ", "\n", ":"}
      \/ \E i \in 1..Len(text) : text[i] = formattedText[k]

\* C21: correctText applied to its own output returns it unchanged
\* ("Format Text" a second time changes nothing).
C21_CorrectTextIdempotent ==
  pc = "corrected" => correctText(formattedText) = formattedText

(***************************************************************************)
(* The multi-page viewer (components/PDFViewer.tsx) under Index            *)
(***************************************************************************)
MaxPages == 3
MaxLoads == 4

\* pages as pdf.js hands them over: every item has a string str and a
\* transform.  Two lines 20 apart, two lines 10 apart, a number below a
\* word, a sentence above a capital.
PageChoices ==
  { <<Item(Chars("Hello"), 0, 100), Item(Chars("World"), 0, 80)>>,
    <<Item(Chars("Good"), 0, 100), Item(Chars("bye"), 0, 90)>>,
    <<Item(Chars("Total"), 0, 100), Item(Chars("42"), 0, 90)>>,
    <<Item(Chars("End."), 0, 100), Item(Chars("Next"), 0, 80)>> }

Files == UNION {[1..n -> PageChoices] : n \in 1..MaxPages}

\* formatTextContent(textContent) on each of these pages
PageTexts == [its \in PageChoices |-> formatTextContentMulti(its)]

DecimalDigits == Chars("0123456789")

\* the property key of a page number: its decimal numeral
RECURSIVE KeyOf(_)
KeyOf(n) ==
  IF n < 10 THEN <<DecimalDigits[n + 1]>>
  ELSE KeyOf(n \div 10) \o <<DecimalDigits[(n % 10) + 1]>>

DigitValue(c) == CHOOSE d \in 0..9 : DecimalDigits[d + 1] = c

\* parseInt of a decimal numeral
RECURSIVE parseInt(_)
parseInt(k) ==
  IF Len(k) = 1 THEN DigitValue(k[1])
  ELSE 10 * parseInt(SubSeq(k, 1, Len(k) - 1)) + DigitValue(k[Len(k)])

\* Object.entries(extractedTextRef.current) for the keys in S: the keys
\* of an object that are integers come in ascending order
RECURSIVE EntriesOf(_, _)
EntriesOf(ref, S) ==
  IF S = {} THEN <<>>
  ELSE LET p == CHOOSE q \in S : \A r \in S : q <= r
       IN <<<<KeyOf(p), ref[p]>>>> \o EntriesOf(ref, S \ {p})

Entries(ref) == EntriesOf(ref, DOMAIN ref)

\* a comparator that puts the higher page first
ComparePagesDescending(a, b) == parseInt(b[1]) - parseInt(a[1])

\* ([pageA], [pageB]) => parseInt(pageA) - parseInt(pageB)
ComparePages(a, b) == parseInt(a[1]) - parseInt(b[1])

\* Array.prototype.sort with ComparePages (stable)
RECURSIVE InsertEntry(_, _)
InsertEntry(sorted, e) ==
  IF sorted = <<>> THEN <<e>>
  ELSE IF ComparePages(e, Head(sorted)) < 0 THEN <<e>> \o sorted
  ELSE <<Head(sorted)>> \o InsertEntry(Tail(sorted), e)

RECURSIVE SortEntries(_)
SortEntries(es) ==
  IF es = <<>> THEN <<>>
  ELSE InsertEntry(SortEntries(SubSeq(es, 1, Len(es) - 1)), es[Len(es)])

\* Array.prototype.join(sep) on strings
RECURSIVE JoinWith(_, _)
JoinWith(parts, sep) ==
  IF parts = <<>> THEN <<>>
  ELSE IF Len(parts) = 1 THEN parts[1]
  ELSE parts[1] \o sep \o JoinWith(Tail(parts), sep)

\* combinedText of onPageLoadSuccess and of the effect
CombinedText(ref) ==
  LET sorted == SortEntries(Entries(ref))
  IN JoinWith([i \in 1..Len(sorted) |-> sorted[i][2]], <<"\n", "\n">>)

ViewerInit ==
  /\ pc = "mounted"
  /\ items = <<>>
  /\ lines = <<>>
  /\ pageText = <<>>
  /\ text = <<>>
  /\ formattedText = <<>>
  /\ file \in Files
  /\ numPages = 0
  /\ pending = [pageIndex \in 0..(Len(file) - 1) |-> 0]
  /\ loads = 0
  /\ resolved = {}
  /\ extractedTextRef = <<>>
  /\ allText = <<>>
  /\ extractedText = <<>>
  /\ effectDue = TRUE
  /\ documentLoading = TRUE
  /\ superseded = <<>>
  /\ pageNumber = 1

\* onDocumentLoadSuccess: setNumPages(numPages); the Pages get rendered
OnDocumentLoadSuccess ==
  /\ pc = "mounted"
  /\ documentLoading
  /\ documentLoading' = FALSE
  /\ numPages' = Len(file)
  /\ UNCHANGED <<pc, items, lines, pageText, text, formattedText, file, pending,
                 loads, resolved, extractedTextRef, allText, extractedText, effectDue,
                 superseded, pageNumber>>

\* onPageLoadSuccess(page, pageIndex): page.getTextContent() is called, its
\* promise is pending.  A Page that is rendered anew (zoomIn, zoomOut and
\* rotate change its props) can report its load again.
OnPageLoadSuccess(pageIndex) ==
  /\ pc = "mounted"
  /\ ~documentLoading
  /\ pageIndex < numPages
  /\ loads < MaxLoads
  /\ loads' = loads + 1
  /\ pending' = [pending EXCEPT ![pageIndex] = @ + 1]
  /\ UNCHANGED <<pc, items, lines, pageText, text, formattedText, file, numPages,
                 resolved, extractedTextRef, allText, extractedText, effectDue,
                 documentLoading, superseded, pageNumber>>

\* the callback of page.getTextContent().then of onPageLoadSuccess:
\* setAllText(combinedText) and onTextExtracted(combinedText), which is
\* handleTextExtracted of Index without a pageNumber: setExtractedText(text).
\* Index is rendered again when its state changes, and hands the viewer a
\* new onTextExtracted.
GetTextContentResolved(pageIndex) ==
  /\ pc = "mounted"
  /\ pageIndex \in DOMAIN pending
  /\ pending[pageIndex] > 0
  /\ extractedTextRef' =
       [key \in DOMAIN extractedTextRef \cup {pageIndex + 1} |->
          IF key = pageIndex + 1 THEN PageTexts[file[pageIndex + 1]]
          ELSE extractedTextRef[key]]
  /\ allText' = CombinedText(extractedTextRef')
  /\ extractedText' = allText'
  /\ effectDue' = (effectDue \/ extractedText' # extractedText)
  /\ resolved' = resolved \cup {pageIndex + 1}
  /\ pending' = [pending EXCEPT ![pageIndex] = @ - 1]
  /\ UNCHANGED <<pc, items, lines, pageText, text, formattedText, file, numPages,
                 loads, documentLoading, superseded, pageNumber>>

\* the effect of lines 70-80, run after a render in which onTextExtracted
\* is a new function
UpdateCombinedText ==
  /\ pc = "mounted"
  /\ effectDue
  /\ IF DOMAIN extractedTextRef # {}
     THEN /\ allText' = CombinedText(extractedTextRef)
          /\ extractedText' = allText'
          /\ effectDue' = (extractedText' # extractedText)
     ELSE /\ effectDue' = FALSE
          /\ UNCHANGED <<allText, extractedText>>
  /\ UNCHANGED <<pc, items, lines, pageText, text, formattedText, file, numPages,
                 pending, loads, resolved, extractedTextRef, documentLoading,
                 superseded, pageNumber>>

ViewerNext ==
  \/ OnDocumentLoadSuccess
  \/ \E pageIndex \in 0..(MaxPages - 1) : OnPageLoadSuccess(pageIndex)
  \/ \E pageIndex \in 0..(MaxPages - 1) : GetTextContentResolved(pageIndex)
  \/ UpdateCombinedText

ViewerSpec == ViewerInit /\ [][ViewerNext]_vars

(***************************************************************************)
(* Multi-page viewer: what the claims speak of                             *)
(***************************************************************************)
\* the texts of the pages in S, in ascending page number, "\n\n" between
\* each two of them
RECURSIVE PagesJoined(_)
PagesJoined(S) ==
  IF S = {} THEN <<>>
  ELSE LET p == CHOOSE q \in S : \A r \in S : q <= r
       IN IF S = {p} THEN PageTexts[file[p]]
          ELSE PageTexts[file[p]] \o <<"\n", "\n">> \o PagesJoined(S \ {p})

\* C18: whatever the order in which the getTextContent calls complete, the
\* text handed to onTextExtracted (and kept in allText) is the texts of
\* the pages completed so far, in ascending page number, joined by "\n\n":
\* each page once, and all pages 1..N once all have completed.
C18_CombinedInPageOrder ==
  (pc = "mounted" /\ resolved # {}) =>
    /\ extractedText = PagesJoined(resolved)
    /\ allText = PagesJoined(resolved)

\* pages 2 and 3 of a document of three have completed while a call of
\* page 1 is still outstanding, after four reported page loads
C18_Witness ==
  /\ pc = "mounted"
  /\ Len(file) = 3
  /\ file[2] # file[3]
  /\ resolved = {2, 3}
  /\ pending[0] > 0
  /\ loads = 4
  /\ extractedText = PageTexts[file[2]] \o <<"\n", "\n">> \o PageTexts[file[3]]

\* C19: the page text the multi-page viewer stores has "\n\n" between two
\* consecutive reconstructed lines whose y gap exceeds 12 and a single "\n"
\* between two whose gap is at most 12.
C19_ViewerKeepsBreaks ==
  pc = "mounted" =>
    \A p \in DOMAIN extractedTextRef :
      LET ls == BuildLines(Mapped(file[p]), Len(file[p]))
      IN \A i \in 1..(Len(ls) - 1) :
           Contains(extractedTextRef[p],
                    LineText(ls, i) \o Separator(ls, i) \o LineText(ls, i + 1))

(***************************************************************************)
(* The multi-page viewer when another file is selected                     *)
(***************************************************************************)
MaxSwitchPages == 2

\* the pages of the files to select from: a number below a word, a
\* sentence above a capital
SwitchPages ==
  { <<Item(Chars("Total"), 0, 100), Item(Chars("42"), 0, 90)>>,
    <<Item(Chars("End."), 0, 100), Item(Chars("Next"), 0, 80)>> }

SwitchFiles == UNION {[1..n -> SwitchPages] : n \in 1..MaxSwitchPages}

SwitchInit == ViewerInit /\ file \in SwitchFiles

\* the getTextContent calls of pages of file that have not completed
Outstanding == {<<pageIndex, file[pageIndex + 1]>> : pageIndex \in {i \in DOMAIN pending : pending[i] > 0}}

\* handleFileSelect of Index: setSelectedFile(file), setExtractedText('').
\* Index is rendered again and hands the viewer, which stays mounted with
\* its state and its extractedTextRef, the new file and a new
\* onTextExtracted; Document loads the new file.  The promises of the
\* pages of the file shown before stay pending.
HandleFileSelect(f) ==
  /\ pc = "mounted"
  /\ f # file
  /\ file' = f
  /\ extractedText' = <<>>
  /\ effectDue' = TRUE
  /\ documentLoading' = TRUE
  /\ resolved' = {}
  /\ pending' = [pageIndex \in 0..(Len(f) - 1) |-> 0]
  /\ superseded' =
       [c \in DOMAIN superseded \cup Outstanding |->
          (IF c \in DOMAIN superseded THEN superseded[c] ELSE 0)
            + (IF c \in Outstanding THEN pending[c[1]] ELSE 0)]
  /\ UNCHANGED <<pc, items, lines, pageText, text, formattedText, numPages, loads,
                 extractedTextRef, allText, pageNumber>>

\* the callback of page.getTextContent().then for a page of a file shown
\* before: c is <<pageIndex, items>>
GetTextContentResolvedLate(c) ==
  /\ pc = "mounted"
  /\ c \in DOMAIN superseded
  /\ extractedTextRef' =
       [key \in DOMAIN extractedTextRef \cup {c[1] + 1} |->
          IF key = c[1] + 1 THEN PageTexts[c[2]] ELSE extractedTextRef[key]]
  /\ allText' = CombinedText(extractedTextRef')
  /\ extractedText' = allText'
  /\ effectDue' = (effectDue \/ extractedText' # extractedText)
  /\ superseded' =
       [d \in {e \in DOMAIN superseded : e # c \/ superseded[c] > 1} |->
          IF d = c THEN superseded[c] - 1 ELSE superseded[d]]
  /\ UNCHANGED <<pc, items, lines, pageText, text, formattedText, file, numPages,
                 pending, loads, resolved, documentLoading, pageNumber>>

SwitchNext ==
  \/ \E f \in SwitchFiles : HandleFileSelect(f)
  \/ OnDocumentLoadSuccess
  \/ \E pageIndex \in 0..(MaxSwitchPages - 1) : OnPageLoadSuccess(pageIndex)
  \/ \E pageIndex \in 0..(MaxSwitchPages - 1) : GetTextContentResolved(pageIndex)
  \/ \E pageIndex \in 0..(MaxSwitchPages - 1), its \in SwitchPages :
       GetTextContentResolvedLate(<<pageIndex, its>>)
  \/ UpdateCombinedText

SwitchSpec == SwitchInit /\ [][SwitchNext]_vars

\* the combined texts that hold text of pages of the selected file only
\* (the pages of PageChoices have texts that differ)
TextsOfFile == {PagesJoined(S) : S \in SUBSET (1..Len(file))}

\* C22: the text reported through onTextExtracted holds text of pages of
\* the selected file only, also after another file was selected: no text
\* kept in extractedTextRef for a file shown before, and no result of a
\* getTextContent call of such a file that completes late.
C22_OnlyPagesOfSelectedFile ==
  pc = "mounted" => extractedText \in TextsOfFile

\* ------------------------------------------------------------------
\* The single-page viewer (PDFViewer of services/openai.ts): one page
\* of the document is shown, with buttons for the page before and the
\* page after it.
\* ------------------------------------------------------------------

MaxPagerPages == 5

\* Files for the pager: only their number of pages matters to it.
PagerFiles == {[p \in 1..n |-> <<>>] : n \in 1..MaxPagerPages}

\* The viewer after its first render: numPages 0, pageNumber 1, the
\* document of the file prop loading.
PagerInit ==
  /\ pc = "paging"
  /\ items = <<>> /\ lines = <<>> /\ pageText = <<>>
  /\ text = <<>> /\ formattedText = <<>>
  /\ file \in PagerFiles
  /\ numPages = 0
  /\ pageNumber = 1
  /\ documentLoading = TRUE
  /\ pending = <<>> /\ loads = 0 /\ resolved = {}
  /\ extractedTextRef = <<>> /\ allText = <<>> /\ extractedText = <<>>
  /\ effectDue = FALSE /\ superseded = <<>>

\* The parent renders the viewer with another file: the Document loads
\* it; numPages and pageNumber are state of the viewer and stay.
FileChanged(f) ==
  /\ pc = "paging"
  /\ f # file
  /\ file' = f
  /\ documentLoading' = TRUE
  /\ UNCHANGED <<pc, items, lines, pageText, text, formattedText, numPages, pending,
                 loads, resolved, extractedTextRef, allText, extractedText, effectDue,
                 superseded, pageNumber>>

\* onDocumentLoadSuccess of the single-page viewer: setNumPages(numPages).
onDocumentLoadSuccess ==
  /\ pc = "paging"
  /\ documentLoading
  /\ documentLoading' = FALSE
  /\ numPages' = Len(file)
  /\ UNCHANGED <<pc, items, lines, pageText, text, formattedText, file, pending,
                 loads, resolved, extractedTextRef, allText, extractedText, effectDue,
                 superseded, pageNumber>>

Max(a, b) == IF a >= b THEN a ELSE b

Min(a, b) == IF a <= b THEN a ELSE b

\* The button is disabled while pageNumber <= 1.
goToPrevPage ==
  /\ pc = "paging"
  /\ ~(pageNumber <= 1)
  /\ pageNumber' = Max(1, pageNumber - 1)
  /\ UNCHANGED <<pc, items, lines, pageText, text, formattedText, file, numPages,
                 pending, loads, resolved, extractedTextRef, allText, extractedText,
                 effectDue, documentLoading, superseded>>

\* The button is disabled while pageNumber >= numPages.
goToNextPage ==
  /\ pc = "paging"
  /\ ~(pageNumber >= numPages)
  /\ pageNumber' = Min(numPages, pageNumber + 1)
  /\ UNCHANGED <<pc, items, lines, pageText, text, formattedText, file, numPages,
                 pending, loads, resolved, extractedTextRef, allText, extractedText,
                 effectDue, documentLoading, superseded>>

PagerNext ==
  \/ \E f \in PagerFiles : FileChanged(f)
  \/ onDocumentLoadSuccess
  \/ goToPrevPage
  \/ goToNextPage

PagerSpec == PagerInit /\ [][PagerNext]_vars

\* C23: once a document with at least one page has loaded, the page
\* number shown lies in 1..numPages, whatever clicks and loads came
\* before, the load of a file with fewer pages than the page shown
\* included.
C23_PageNumberInRange ==
  (pc = "paging" /\ numPages >= 1) => (1 <= pageNumber /\ pageNumber <= numPages)

====
